---- MODULE Spec2Model ----
(***************************************************************************)
(* A model of AER::Base::Controller (src/controllers/controller.hpp): the  *)
(* configuration loader, the distribution planner, the two parallelism     *)
(* planners, the experiment loop of execute() and the shot loop of         *)
(* execute_circuit().  The back-end (run_circuit, required_memory_mb) is   *)
(* abstract in the source and is modelled by its inputs and by a           *)
(* nondeterministic outcome.                                               *)
(***************************************************************************)
EXTENDS Integers, Sequences, FiniteSets, TLC

(***************************************************************************)
(* Bounds of the model.                                                    *)
(***************************************************************************)
\* longest circuit list of a job
MaxCircuits == 3
\* largest number of processes of the fleet of ranks
MaxProcs == 6
\* number of jobs one Controller executes one after the other
MaxJobs == 2
\* omp_get_max_threads() of the platform
OmpThreads == 3
\* get_system_memory_mb() of the platform
SystemMemoryMb == 4
\* width of uint_t (the circuit seed), in bits
UintBits == 3
\* largest value a division by zero is taken to leave behind
MaxUBQuot == 2

UintMod == 2 ^ UintBits

Min(a, b) == IF a < b THEN a ELSE b
Max(a, b) == IF a > b THEN a ELSE b

RECURSIVE SumSeq(_)
SumSeq(s) == IF s = <<>> THEN 0 ELSE Head(s) + SumSeq(Tail(s))

RemoveAt(s, i) == SubSeq(s, 1, i - 1) \o SubSeq(s, i + 1, Len(s))

(***************************************************************************)
(* Undefined behaviour.  An integer division by zero either traps or       *)
(* leaves some value behind: UDiv takes that value, q, as an argument and  *)
(* the actions choose it (and whether the process traps).                  *)
(***************************************************************************)
UBQuot == 0..MaxUBQuot

UDiv(a, b, q) == IF b = 0 THEN q ELSE a \div b

(***************************************************************************)
(* JSON config: a function from the keys that are present to their values. *)
(***************************************************************************)
check_key(k, config) == k \in DOMAIN config

get_value(old, k, config) == IF check_key(k, config) THEN config[k] ELSE old

(***************************************************************************)
(* Controller::get_system_memory_mb and Controller::clear_parallelization. *)
(***************************************************************************)
get_system_memory_mb == SystemMemoryMb

clear_parallelization ==
  [ max_parallel_threads |-> 0, max_parallel_experiments |-> 1,
    max_parallel_shots |-> 0,
    parallel_experiments |-> 1, parallel_shots |-> 1,
    parallel_state_update |-> 1, parallel_nested |-> FALSE,
    num_process_per_experiment |-> 1, distributed_experiments |-> 1,
    distributed_shots |-> 1,
    explicit_parallelization |-> FALSE,
    max_memory_mb |-> get_system_memory_mb \div 2 ]

(***************************************************************************)
(* Controller::set_config (the _OPENMP build), as a function from the      *)
(* fields it reads to the fields it writes.  c holds the old fields.       *)
(***************************************************************************)
ConfigThreads(old, config) ==
  LET t == get_value(old, "max_parallel_threads", config)
  IN  IF t > 0 THEN Min(t, OmpThreads) ELSE Max(1, OmpThreads)

\* variant: the debug keys do not turn explicit parallelization on
ConfigExplicit_ignoring_keys(old, config) == old

ConfigExplicit(old, config) ==
  \/ old
  \/ check_key("_parallel_experiments", config)
  \/ check_key("_parallel_shots", config)
  \/ check_key("_parallel_state_update", config)

set_config(c, config) ==
  LET explicit == ConfigExplicit(c.explicit_parallelization, config)
      pe  == get_value(c.parallel_experiments, "_parallel_experiments", config)
      ps  == get_value(c.parallel_shots, "_parallel_shots", config)
      psu == get_value(c.parallel_state_update, "_parallel_state_update", config)
  IN  [ max_parallel_threads |-> ConfigThreads(c.max_parallel_threads, config),
        max_parallel_experiments |->
          get_value(c.max_parallel_experiments, "max_parallel_experiments", config),
        max_parallel_shots |->
          get_value(c.max_parallel_shots, "max_parallel_shots", config),
        max_memory_mb |-> get_value(c.max_memory_mb, "max_memory_mb", config),
        explicit_parallelization |-> explicit,
        parallel_experiments |-> IF explicit THEN Max(pe, 1) ELSE pe,
        parallel_shots |-> IF explicit THEN Max(ps, 1) ELSE ps,
        parallel_state_update |-> IF explicit THEN Max(psu, 1) ELSE psu ]

(***************************************************************************)
(* Controller::set_distributed_parallelization.                            *)
(***************************************************************************)
\* the loop over the circuits that raises num_process_per_experiment_
RECURSIVE NumProcessPerExperiment(_, _, _, _)
NumProcessPerExperiment(nppe, mems, max_memory_mb, q) ==
  IF mems = <<>> THEN nppe
  ELSE LET size == Head(mems)
       IN  NumProcessPerExperiment(
             IF size > max_memory_mb
               THEN Max(nppe, UDiv(size + max_memory_mb - 1, max_memory_mb, q))
               ELSE nppe,
             Tail(mems), max_memory_mb, q)

\* variant: the surplus groups are not turned into shot ranks
DistributedShots_not_distributed(dist, n, gid) == 1

\* distributed_shots_ of case A: the groups that share circuit gid % n
DistributedShots(dist, n, gid) ==
  (dist \div n) + (IF gid % n < dist % n THEN 1 ELSE 0)

\* q = [m, b, e]: what the divisions by zero of lines 434, 455 and 456 leave
set_distributed_parallelization(mems, nppe0, max_memory_mb, num_processes, myrank, q) ==
  LET n     == Len(mems)
      nppe  == NumProcessPerExperiment(nppe0, mems, max_memory_mb, q.m)
      dist  == num_processes \div nppe
      gid   == myrank \div nppe
      grank == myrank % nppe
      ubm   == max_memory_mb = 0 /\ \E j \in 1..n : mems[j] > 0
  IN  IF n < dist
        THEN [ num_process_per_experiment |-> nppe,
               groups |-> dist,
               distributed_experiments |-> n,
               distributed_experiments_group_id |-> gid,
               distributed_experiments_rank |-> grank,
               distributed_experiments_begin |-> gid % n,
               distributed_experiments_end |-> (gid % n) + 1,
               distributed_shots |-> DistributedShots(dist, n, gid),
               distributed_shots_rank |-> gid \div n,
               ub |-> ubm ]
        ELSE [ num_process_per_experiment |-> nppe,
               groups |-> dist,
               distributed_experiments |-> dist,
               distributed_experiments_group_id |-> gid,
               distributed_experiments_rank |-> grank,
               distributed_experiments_begin |-> UDiv(n * gid, dist, q.b),
               distributed_experiments_end |-> UDiv(n * (gid + 1), dist, q.e),
               distributed_shots |-> 1,
               distributed_shots_rank |-> 0,
               ub |-> ubm \/ dist = 0 ]

\* variant: the remainder of the shots goes to the lowest shot ranks
LocalShots_remainder_first(shots, distributed_shots_rank, distributed_shots) ==
  (shots \div distributed_shots)
    + (IF distributed_shots_rank < shots % distributed_shots THEN 1 ELSE 0)

\* the local shot count of execute_circuit (and of set_parallelization_circuit)
LocalShots(shots, distributed_shots_rank, distributed_shots) ==
  ((shots * (distributed_shots_rank + 1)) \div distributed_shots)
    - ((shots * distributed_shots_rank) \div distributed_shots)

(***************************************************************************)
(* Controller::set_parallelization_experiments.                            *)
(***************************************************************************)
\* variant: the list is left in circuit order
SortDescending_unsorted(s) == s

RECURSIVE SortDescending(_)
SortDescending(s) ==
  IF s = <<>> THEN <<>>
  ELSE LET i == CHOOSE i \in 1..Len(s) : \A k \in 1..Len(s) : s[i] >= s[k]
       IN  <<s[i]>> \o SortDescending(RemoveAt(s, i))

\* the loop that counts the circuits of the sorted list that fit
RECURSIVE PrefixFit(_, _, _, _)
PrefixFit(list, total_memory, budget, count) ==
  IF list = <<>> THEN count
  ELSE IF total_memory + Head(list) > budget THEN count
  ELSE PrefixFit(Tail(list), total_memory + Head(list), budget, count + 1)

\* mems: required_memory_mb of the local circuits, in index order
set_parallelization_experiments(mems, max_parallel_experiments, max_parallel_threads, num_processes, nppe, max_memory_mb) ==
  LET max_experiments ==
        IF max_parallel_experiments > 0
          THEN Min(max_parallel_experiments, max_parallel_threads)
          ELSE max_parallel_threads
  IN  IF max_experiments = 1 /\ num_processes = 1
        THEN [throw |-> FALSE, parallel_experiments |-> 1]
        ELSE LET list == SortDescending([j \in 1..Len(mems) |-> mems[j] \div nppe])
                 fit  == PrefixFit(list, 0, max_memory_mb * nppe, 0)
             IN  IF fit <= 0
                   THEN [throw |-> TRUE, parallel_experiments |-> fit]
                   ELSE [throw |-> FALSE,
                         parallel_experiments |->
                           Min(Min(fit, max_experiments),
                               Min(max_parallel_threads, Len(mems)))]

(***************************************************************************)
(* Controller::set_parallelization_circuit.  c holds the fields it reads;  *)
(* on a throw parallel_shots_ and parallel_state_update_ keep their values.*)
(***************************************************************************)
\* variant: the planner without the parallel_experiments_ > 1 test of line 402
set_parallelization_circuit_ignoring_experiments(circ, c) ==
  LET max_shots ==
        IF c.max_parallel_shots > 0
          THEN Min(c.max_parallel_shots, c.max_parallel_threads)
          ELSE c.max_parallel_threads
      circ_memory_mb == circ.mem \div c.num_process_per_experiment
      shots == LocalShots(circ.shots, c.distributed_shots_rank, c.distributed_shots)
      ps == IF max_shots = 1 THEN 1
            ELSE Min(Min(c.max_memory_mb \div Max(1, circ_memory_mb), max_shots),
                     shots)
  IN  [throw |-> max_shots # 1 /\ c.max_memory_mb < circ_memory_mb,
       parallel_shots |-> ps,
       parallel_state_update |->
         IF ps > 1 THEN Max(1, c.max_parallel_threads \div ps)
         ELSE Max(1, c.max_parallel_threads \div c.parallel_experiments)]

\* variant: the planner without the local shot count in the minimum of line 417
set_parallelization_circuit_unbounded_by_shots(circ, c) ==
  LET max_shots ==
        IF c.max_parallel_shots > 0
          THEN Min(c.max_parallel_shots, c.max_parallel_threads)
          ELSE c.max_parallel_threads
      circ_memory_mb == circ.mem \div c.num_process_per_experiment
      throw == ~(max_shots = 1 \/ c.parallel_experiments > 1)
               /\ c.max_memory_mb < circ_memory_mb
      ps == IF max_shots = 1 \/ c.parallel_experiments > 1 THEN 1
            ELSE Min(c.max_memory_mb \div Max(1, circ_memory_mb), max_shots)
  IN  IF throw
        THEN [throw |-> TRUE, parallel_shots |-> c.parallel_shots,
              parallel_state_update |-> c.parallel_state_update]
        ELSE [throw |-> FALSE, parallel_shots |-> ps,
              parallel_state_update |->
                IF ps > 1 THEN Max(1, c.max_parallel_threads \div ps)
                ELSE Max(1, c.max_parallel_threads \div c.parallel_experiments)]

set_parallelization_circuit(circ, c) ==
  LET max_shots ==
        IF c.max_parallel_shots > 0
          THEN Min(c.max_parallel_shots, c.max_parallel_threads)
          ELSE c.max_parallel_threads
      circ_memory_mb == circ.mem \div c.num_process_per_experiment
      shots == LocalShots(circ.shots, c.distributed_shots_rank, c.distributed_shots)
      throw == ~(max_shots = 1 \/ c.parallel_experiments > 1)
               /\ c.max_memory_mb < circ_memory_mb
      ps == IF max_shots = 1 \/ c.parallel_experiments > 1 THEN 1
            ELSE Min(Min(c.max_memory_mb \div Max(1, circ_memory_mb), max_shots),
                     shots)
  IN  IF throw
        THEN [throw |-> TRUE, parallel_shots |-> c.parallel_shots,
              parallel_state_update |-> c.parallel_state_update]
        ELSE [throw |-> FALSE, parallel_shots |-> ps,
              parallel_state_update |->
                IF ps > 1 THEN Max(1, c.max_parallel_threads \div ps)
                ELSE Max(1, c.max_parallel_threads \div c.parallel_experiments)]

(***************************************************************************)
(* Controller::validate_memory_requirements, for a circuit that needs      *)
(* required_mb with the state the back-end chose: TRUE when it passes.     *)
(***************************************************************************)
validate_memory_requirements(required_mb, c) ==
  IF c.max_memory_mb = 0 THEN TRUE
  ELSE ~(c.max_memory_mb < required_mb \div c.num_process_per_experiment)

(***************************************************************************)
(* Controller::execute_circuit: the shots and the seed of each bucket.     *)
(***************************************************************************)
\* variant: the remainder of line 773 is dropped
Subshots_without_remainder(shots, parallel_shots) ==
  [i \in 1..parallel_shots |-> shots \div parallel_shots]

\* subshots[i + 1] is the source's subshots[i]
Subshots(shots, parallel_shots) ==
  [i \in 1..parallel_shots |->
     (shots \div parallel_shots)
       + (IF i - 1 < shots % parallel_shots THEN 1 ELSE 0)]

\* variant: every bucket is given circ.seed
BucketSeed_of_circuit(seed, i) == seed % UintMod

\* circ.seed + i in uint_t
BucketSeed(seed, i) == (seed + i) % UintMod

(***************************************************************************)
(* Controller::execute: the reduction of the experiment results to the     *)
(* status and the message of the Result.                                   *)
(***************************************************************************)
\* the loop over result.results; results[i + 1] is the source's results[i]
RECURSIVE StatusLoop(_, _, _)
StatusLoop(i, results, acc) ==
  IF i >= Len(results) THEN acc
  ELSE StatusLoop(i + 1, results,
         IF results[i + 1].status = "completed"
           THEN [acc EXCEPT !.all_failed = FALSE]
           ELSE [acc EXCEPT !.status = "partial_completed",
                            !.message = @ \o " [Experiment " \o ToString(i)
                                          \o "] " \o results[i + 1].message])

\* variant: a failed experiment does not lower the status to partial_completed
ReduceStatus_without_partial(results) ==
  LET acc == StatusLoop(0, results,
               [all_failed |-> TRUE, status |-> "completed", message |-> ""])
  IN  [status |-> IF acc.all_failed THEN "error" ELSE "completed",
       message |-> acc.message]

ReduceStatus(results) ==
  LET acc == StatusLoop(0, results,
               [all_failed |-> TRUE, status |-> "completed", message |-> ""])
  IN  [status |-> IF acc.all_failed THEN "error" ELSE acc.status,
       message |-> acc.message]

(***************************************************************************)
(* The abstract back-end.  run_circuit returns or throws; an error is a    *)
(* std::runtime_error or another std::exception (std::invalid_argument,    *)
(* std::bad_alloc, ...), with a message that may be empty.                 *)
(***************************************************************************)
Messages == {"", "a", "b"}

Outcomes ==
  {[kind |-> "ok", msg |-> ""]}
    \cup {[kind |-> "runtime_error", msg |-> m] : m \in Messages}
    \cup {[kind |-> "exception", msg |-> "x"]}

OutOfMemoryMessage == "a circuit requires more memory than max_memory_mb."

(***************************************************************************)
(* State.                                                                  *)
(*   ctl        the fields of the Controller object of this process        *)
(*   omp_nested the nesting flag of the thread pool (omp_set_nested)       *)
(*   job        the job being executed: its config and its circuits        *)
(*   fault      how the divisions by zero of the job end: a trap, or the   *)
(*              values they leave                                          *)
(*   phase      where execute() is: idle, running (the experiment loop),   *)
(*              returned, trap (killed by a fault), terminated             *)
(*              (std::terminate)                                           *)
(*   exps       one record per local experiment: the progress of           *)
(*              execute_circuit on it and its ExperimentResult             *)
(*   result     status and message of the Result                          *)
(*   njobs      number of jobs started on this Controller                  *)
(*   profile    the family of inputs the jobs are drawn from               *)
(*   fleet      the ranks of one distributed job, each with its own        *)
(*              Controller (used by SpecDist)                              *)
(***************************************************************************)
VARIABLES ctl, omp_nested, job, fault, phase, exps, result, njobs, profile, fleet

vars == <<ctl, omp_nested, job, fault, phase, exps, result, njobs, profile, fleet>>

Merge(c, upd) == [k \in DOMAIN c |-> IF k \in DOMAIN upd THEN upd[k] ELSE c[k]]

\* Controller(): the member initialisers and clear_parallelization()
Controller(num_processes, myrank) ==
  [ myrank |-> myrank, num_processes |-> num_processes,
    max_parallel_threads |-> clear_parallelization.max_parallel_threads,
    max_parallel_experiments |-> clear_parallelization.max_parallel_experiments,
    max_parallel_shots |-> clear_parallelization.max_parallel_shots,
    max_memory_mb |-> clear_parallelization.max_memory_mb,
    explicit_parallelization |-> clear_parallelization.explicit_parallelization,
    parallel_experiments |-> clear_parallelization.parallel_experiments,
    parallel_shots |-> clear_parallelization.parallel_shots,
    parallel_state_update |-> clear_parallelization.parallel_state_update,
    parallel_nested |-> clear_parallelization.parallel_nested,
    num_process_per_experiment |-> clear_parallelization.num_process_per_experiment,
    distributed_experiments |-> clear_parallelization.distributed_experiments,
    distributed_experiments_group_id |-> 0,
    distributed_experiments_rank |-> 0,
    distributed_experiments_begin |-> 0,
    distributed_experiments_end |-> 0,
    distributed_shots |-> clear_parallelization.distributed_shots,
    distributed_shots_rank |-> 0 ]

DistFields ==
  { "num_process_per_experiment", "distributed_experiments",
    "distributed_experiments_group_id", "distributed_experiments_rank",
    "distributed_experiments_begin", "distributed_experiments_end",
    "distributed_shots", "distributed_shots_rank" }

NoJob == [config |-> <<>>, circuits |-> <<>>]

NoFault == [trap |-> FALSE, q |-> [m |-> 0, b |-> 0, e |-> 0]]

EmptyResult == [status |-> "empty", message |-> ""]

\* a default-constructed ExperimentResult
EmptyExperimentResult ==
  [status |-> "empty", message |-> "", shots |-> "unset", seed |-> "unset",
   data |-> 0, combined |-> 0]

Mems(circuits) == [j \in 1..Len(circuits) |-> circuits[j].mem]

\* what reading circuits[k] past the end of the vector may find
GarbageCircuits ==
  { [shots |-> 1, mem |-> 0, seed |-> 0], [shots |-> 2, mem |-> 3, seed |-> 1] }

(***************************************************************************)
(* Controller::execute(qobj) and Controller::execute(circuits, ...), up to *)
(* the experiment loop: set_config, set_distributed_parallelization, the   *)
(* Result, set_parallelization_experiments and the nesting flag.           *)
(***************************************************************************)
\* variant: every iteration is handed the first local circuit
CircuitIndex_of_first(j, begin) == begin

\* variant: every iteration is handed the job's noise_model itself
NoiseInstance_of_job(j) == 0

\* the circuit execute() hands to the j-th local experiment (j from 1):
\* circuits[j + distributed_experiments_begin_] of line 687 and 694
CircuitIndex(j, begin) == (j - 1) + begin

\* the noise model execute() hands to the j-th local experiment: the copy
\* circ_noise_model made in iteration j (0 is the job's noise_model)
NoiseInstance(j) == j

\* no bucket of the shot region has thrown
NoneRaised == [bucket |-> 0, msg |-> "", kinds |-> {}]

\* the lowest-indexed bucket (from 1) whose run_circuit has thrown so far,
\* with the text of what it threw, and the kinds of what the buckets threw
LowestRaised(raised, i, out) ==
  IF out.kind = "ok" THEN raised
  ELSE IF raised.bucket = 0 \/ i < raised.bucket
    THEN [bucket |-> i, msg |-> out.msg, kinds |-> raised.kinds \cup {out.kind}]
    ELSE [raised EXCEPT !.kinds = @ \cup {out.kind}]

PendingExperiment(src, circ) ==
  [st |-> "pending", src |-> src, circ |-> circ, noise |-> 0, shots |-> 0,
   raised |-> NoneRaised, started |-> 0,
   pshots |-> 0, team |-> 0, calls |-> 0, inv |-> <<>>, bst |-> <<>>,
   error_msgs |-> <<>>, par_results |-> <<>>, res |-> EmptyExperimentResult]

\* the values the divisions by zero of set_distributed_parallelization may
\* leave: q.m at line 434, q.b and q.e at lines 455 and 456
DivisionChoices(mems, nppe0, max_memory_mb, num_processes, myrank) ==
  {q \in [m : UBQuot, b : UBQuot, e : UBQuot] :
     /\ (q.m # 0) => (max_memory_mb = 0 /\ \E j \in 1..Len(mems) : mems[j] > 0)
     /\ (q.b # 0 \/ q.e # 0) =>
          (num_processes \div NumProcessPerExperiment(nppe0, mems, max_memory_mb, q.m)
             = 0)}

\* what the Controller holds when a job arrives (kept with the job, for the
\* properties that compare a job with the ones before it)
PriorDegrees ==
  [ _parallel_experiments |-> ctl.parallel_experiments,
    _parallel_shots |-> ctl.parallel_shots,
    _parallel_state_update |-> ctl.parallel_state_update ]

\* variant: the failure is reported without the text of the exception
LoadFailure_without_text(what) ==
  [status |-> "error", message |-> "Failed to load qobj: "]

\* the catch of execute(qobj): a default Result with the error
LoadFailure(what) ==
  [status |-> "error", message |-> "Failed to load qobj: " \o what]

\* what() of the exceptions the parsers throw
ParseErrors == {"p"}

\* execute(qobj) of a job that cannot be parsed: Qobj's constructor throws
\* (stage "qobj", before set_config), or the noise model of the config does
\* (stage "noise_model", after set_config)
ExecuteUnparsable(stage, config, what) ==
  /\ job' = [config |-> IF stage = "qobj" THEN <<>> ELSE config,
             circuits |-> <<>>, parse_error |-> what]
  /\ njobs' = njobs + 1
  /\ ctl' = IF stage = "qobj" THEN ctl ELSE Merge(ctl, set_config(ctl, config))
  /\ phase' = "returned"
  /\ exps' = <<>>
  /\ result' = LoadFailure(what)
  /\ UNCHANGED <<omp_nested, fault, profile, fleet>>

\* variant: nesting is enabled whenever the experiment loop is parallel
NestedExperiments_whenever_parallel(parallel_experiments, max_parallel_threads) == parallel_experiments > 1

\* the test of execute(circuits) that enables nested parallelism
NestedExperiments(parallel_experiments, max_parallel_threads) ==
  parallel_experiments > 1 /\ parallel_experiments < max_parallel_threads

\* variant: a job whose planner failed is reported as partly completed
ExecuteFailure_partial(what) ==
  [status |-> "partial_completed", message |-> what]

\* the catch at the end of execute(circuits): the job failed as a whole
ExecuteFailure(what) == [status |-> "error", message |-> what]

JobLimit == IF profile \in {"seq", "reuse"} THEN MaxJobs ELSE 1

Execute(config, circuits) ==
  /\ job' = [config |-> config, circuits |-> circuits, prior |-> PriorDegrees,
             nested_before |-> omp_nested]
  /\ njobs' = njobs + 1
  /\ UNCHANGED <<profile, fleet>>
  /\ LET n  == Len(circuits)
         c1 == Merge(ctl, set_config(ctl, config))
     IN  \E q \in DivisionChoices(Mems(circuits), c1.num_process_per_experiment,
                                  c1.max_memory_mb, c1.num_processes, c1.myrank) :
       LET d   == set_distributed_parallelization(
                    Mems(circuits), c1.num_process_per_experiment,
                    c1.max_memory_mb, c1.num_processes, c1.myrank, q)
           c2  == Merge(c1, d)
           begin == d.distributed_experiments_begin
           end   == d.distributed_experiments_end
           \* Result result(num_circuits) with end - begin wrapped around
           bad_alloc == begin > end
           num == IF bad_alloc THEN 0 ELSE end - begin
           \* circuits[j] is read past the end of the vector
           oob == ~bad_alloc /\ num > 0 /\ end > n
       IN  \E trap \in (IF d.ub \/ oob THEN BOOLEAN ELSE {FALSE}),
              garbage \in [1..(IF oob THEN num ELSE 0) -> GarbageCircuits] :
                LET local == [j \in 1..num |->
                                IF CircuitIndex(j, begin) < n
                                  THEN circuits[CircuitIndex(j, begin) + 1]
                                  ELSE garbage[j]]
                    plan  == set_parallelization_experiments(
                               Mems(local), c2.max_parallel_experiments,
                               c2.max_parallel_threads, c2.num_processes,
                               c2.num_process_per_experiment, c2.max_memory_mb)
                    throw == ~c2.explicit_parallelization /\ plan.throw
                    c3 == IF c2.explicit_parallelization THEN c2
                          ELSE [c2 EXCEPT !.parallel_experiments =
                                            plan.parallel_experiments]
                    nested == NestedExperiments(c3.parallel_experiments,
                                                c3.max_parallel_threads)
                    pending == [j \in 1..num |->
                                  PendingExperiment(CircuitIndex(j, begin), local[j])]
                IN  /\ fault' = [trap |-> trap, q |-> q]
                    /\ IF trap
                         THEN /\ phase' = "trap"
                              /\ ctl' = IF d.ub THEN c1 ELSE c2
                              /\ exps' = <<>>
                              /\ result' = EmptyResult
                              /\ UNCHANGED omp_nested
                       ELSE IF bad_alloc
                         THEN /\ phase' = "returned"
                              /\ ctl' = c2
                              /\ exps' = <<>>
                              /\ result' = LoadFailure("std::length_error")
                              /\ UNCHANGED omp_nested
                       ELSE IF throw
                         THEN /\ phase' = "returned"
                              /\ ctl' = c3
                              /\ exps' = pending
                              /\ result' = ExecuteFailure(OutOfMemoryMessage)
                              /\ UNCHANGED omp_nested
                       ELSE /\ phase' = "running"
                            /\ ctl' = [c3 EXCEPT !.parallel_nested = nested]
                            /\ omp_nested' = nested
                            /\ exps' = pending
                            /\ result' = EmptyResult

(***************************************************************************)
(* Controller::execute_circuit.                                            *)
(***************************************************************************)
Active(e) == e.st \in {"single", "buckets"}

\* the arguments of one call of run_circuit
Invocation(shots, seed, noise) == [shots |-> shots, seed |-> seed, noise |-> noise]

\* a worker of the experiment loop enters execute_circuit for experiment j:
\* the planner, the local shots, and the call of run_circuit (single path)
\* or the entry of the shot region (parallel path)
ExecuteCircuit(j) ==
  /\ phase = "running"
  /\ j \in 1..Len(exps)
  /\ exps[j].st = "pending"
  /\ IF ctl.parallel_experiments > 1
       THEN Cardinality({k \in 1..Len(exps) : Active(exps[k])})
              < ctl.parallel_experiments
       ELSE \A k \in 1..(j - 1) : exps[k].st = "done"
  /\ LET circ  == exps[j].circ
         noise == NoiseInstance(j)
         plan  == set_parallelization_circuit(circ, ctl)
         throw == ~ctl.explicit_parallelization /\ plan.throw
         c1    == IF ctl.explicit_parallelization THEN ctl
                  ELSE [ctl EXCEPT !.parallel_shots = plan.parallel_shots,
                                   !.parallel_state_update =
                                      plan.parallel_state_update]
         shots == LocalShots(circ.shots, c1.distributed_shots_rank,
                             c1.distributed_shots)
         P     == c1.parallel_shots
         nest  == IF c1.parallel_nested THEN omp_nested
                  ELSE P > 1 /\ c1.parallel_state_update > 1
         \* the shot region is nested in the experiment region iff the
         \* experiment loop is the parallel one
         team  == IF ctl.parallel_experiments > 1 /\ ~nest THEN 1 ELSE P
         sub   == Subshots(shots, P)
     IN  /\ ctl' = c1
         /\ IF throw
              THEN /\ exps' = [exps EXCEPT ![j].st = "done",
                                           ![j].calls = @ + 1,
                                           ![j].noise = noise,
                                           ![j].res.status = "error",
                                           ![j].res.message = OutOfMemoryMessage]
                   /\ UNCHANGED omp_nested
              ELSE IF P <= 1
                THEN /\ exps' = [exps EXCEPT
                           ![j].st = "single", ![j].calls = @ + 1,
                           ![j].noise = noise, ![j].shots = shots,
                           ![j].pshots = P, ![j].team = 1,
                           ![j].inv = <<Invocation(shots, circ.seed, noise)>>]
                     /\ UNCHANGED omp_nested
                ELSE /\ exps' = [exps EXCEPT
                           ![j].st = "buckets", ![j].calls = @ + 1,
                           ![j].noise = noise, ![j].shots = shots,
                           ![j].pshots = P, ![j].team = team,
                           ![j].inv = [i \in 1..P |->
                                         Invocation(sub[i],
                                                    BucketSeed(circ.seed, i - 1),
                                                    noise)],
                           ![j].bst = [i \in 1..P |-> "pending"],
                           ![j].error_msgs = [i \in 1..P |-> ""],
                           ![j].par_results = [i \in 1..P |-> 0]]
                     /\ omp_nested' = nest
  /\ UNCHANGED <<job, fault, phase, result, njobs, profile, fleet>>

\* run_circuit of the single path returns or throws; any std::exception is
\* caught at the end of execute_circuit
RunCircuit(j, out) ==
  /\ phase = "running"
  /\ j \in 1..Len(exps)
  /\ exps[j].st = "single"
  /\ exps' = [exps EXCEPT
       ![j].st = "done",
       ![j].res = IF out.kind = "ok"
                    THEN [status |-> "completed", message |-> "",
                          shots |-> exps[j].shots, seed |-> exps[j].circ.seed,
                          data |-> exps[j].shots, combined |-> 0]
                    ELSE [EmptyExperimentResult EXCEPT
                            !.status = "error", !.message = out.msg]]
  /\ UNCHANGED <<ctl, omp_nested, job, fault, phase, result, njobs, profile, fleet>>

\* a thread of the shot region starts iteration i (bucket i - 1)
BucketStart(j, i) ==
  /\ phase = "running"
  /\ j \in 1..Len(exps)
  /\ exps[j].st = "buckets"
  /\ i \in 1..Len(exps[j].bst)
  /\ exps[j].bst[i] = "pending"
  /\ Cardinality({k \in 1..Len(exps[j].bst) : exps[j].bst[k] = "running"})
       < exps[j].team
  /\ exps' = [exps EXCEPT ![j].bst[i] = "running", ![j].started = @ + 1]
  /\ UNCHANGED <<ctl, omp_nested, job, fault, phase, result, njobs, profile, fleet>>

\* run_circuit of bucket i - 1 returns or throws.  A std::runtime_error is
\* caught in the region.  Any other exception leaves the structured block of
\* the region, which the thread runtime does not define: the process is
\* terminated, or (a region run by the encountering thread alone) the
\* exception unwinds to the catch at the end of execute_circuit.
BucketEnd(j, i, out) ==
  /\ phase = "running"
  /\ j \in 1..Len(exps)
  /\ exps[j].st = "buckets"
  /\ i \in 1..Len(exps[j].bst)
  /\ exps[j].bst[i] = "running"
  /\ IF out.kind # "exception"
       THEN /\ exps' = [exps EXCEPT
                 ![j].bst[i] = "done",
                 ![j].raised = LowestRaised(@, i, out),
                 ![j].par_results[i] =
                    IF out.kind = "ok" THEN exps[j].inv[i].shots ELSE 0,
                 ![j].error_msgs[i] =
                    IF out.kind = "runtime_error" THEN out.msg ELSE ""]
            /\ UNCHANGED phase
       ELSE \/ /\ exps' = [exps EXCEPT ![j].bst[i] = "done",
                                        ![j].raised = LowestRaised(@, i, out)]
               /\ phase' = "terminated"
            \/ /\ \A k \in 1..Len(exps[j].bst) : k # i => exps[j].bst[k] # "running"
               /\ exps' = [exps EXCEPT
                    ![j].st = "done", ![j].raised = NoneRaised,
                    ![j].bst = <<>>, ![j].error_msgs = <<>>,
                    ![j].par_results = <<>>,
                    ![j].res = [EmptyExperimentResult EXCEPT
                                  !.status = "error", !.message = out.msg]]
               /\ UNCHANGED phase
  /\ UNCHANGED <<ctl, omp_nested, job, fault, result, njobs, profile, fleet>>

\* the loop over error_msgs: the first non-empty entry, "" when there is none
RECURSIVE FirstError(_)
FirstError(error_msgs) ==
  IF error_msgs = <<>> THEN ""
  ELSE IF Head(error_msgs) # "" THEN Head(error_msgs)
  ELSE FirstError(Tail(error_msgs))

\* after the shot region: rethrow the first error or combine the results;
\* the payload of a bucket result is the number of shots it simulated
JoinShots(j) ==
  /\ phase = "running"
  /\ j \in 1..Len(exps)
  /\ exps[j].st = "buckets"
  /\ \A i \in 1..Len(exps[j].bst) : exps[j].bst[i] = "done"
  /\ exps' = [exps EXCEPT
       ![j].st = "done", ![j].raised = NoneRaised,
       ![j].bst = <<>>, ![j].error_msgs = <<>>, ![j].par_results = <<>>,
       ![j].res = IF FirstError(exps[j].error_msgs) # ""
                    THEN [EmptyExperimentResult EXCEPT
                            !.status = "error",
                            !.message = FirstError(exps[j].error_msgs)]
                    ELSE [status |-> "completed", message |-> "",
                          shots |-> exps[j].shots, seed |-> exps[j].circ.seed,
                          data |-> SumSeq(exps[j].par_results),
                          combined |-> Len(exps[j].par_results)]]
  /\ UNCHANGED <<ctl, omp_nested, job, fault, phase, result, njobs, profile, fleet>>

\* execute() after the experiment loop: the status of the batch
ReturnResult ==
  /\ phase = "running"
  /\ \A j \in 1..Len(exps) : exps[j].st = "done"
  /\ result' = ReduceStatus([j \in 1..Len(exps) |-> exps[j].res])
  /\ phase' = "returned"
  /\ UNCHANGED <<ctl, omp_nested, job, fault, exps, njobs, profile, fleet>>

(***************************************************************************)
(* The fleet: every rank of one distributed job runs execute() on its own  *)
(* Controller; fleet[r] keeps what set_distributed_parallelization left on *)
(* rank r and the local shot count of each circuit the rank owns.          *)
(***************************************************************************)
Unplanned == [planned |-> FALSE]

FleetExecute(r) ==
  /\ r \in DOMAIN fleet
  /\ ~fleet[r].planned
  /\ LET n  == Len(job.circuits)
         c0 == Controller(Cardinality(DOMAIN fleet), r)
         c1 == Merge(c0, set_config(c0, job.config))
         d  == set_distributed_parallelization(
                 Mems(job.circuits), c1.num_process_per_experiment,
                 c1.max_memory_mb, c1.num_processes, c1.myrank, fault.q)
         begin == d.distributed_experiments_begin
         end   == d.distributed_experiments_end
         owned == {k \in 0..(n - 1) : begin <= k /\ k < end}
     IN  fleet' = [fleet EXCEPT ![r] =
           [planned |-> TRUE, trap |-> fault.trap /\ d.ub, plan |-> d,
            shots |-> [k \in owned |->
                         LocalShots(job.circuits[k + 1].shots,
                                    d.distributed_shots_rank,
                                    d.distributed_shots)]]]
  /\ UNCHANGED <<ctl, omp_nested, job, fault, phase, exps, result, njobs, profile>>

(***************************************************************************)
(* Inputs.                                                                 *)
(***************************************************************************)
SeqsUpTo(S, n) == UNION {[1..k -> S] : k \in 1..n}

\* profile "exec": the experiment loop and the shot loop, with back-end errors
ExecCircuits ==
  { [shots |-> 3, mem |-> 0, seed |-> 0],
    [shots |-> 4, mem |-> 1, seed |-> UintMod - 1],
    [shots |-> 5, mem |-> 0, seed |-> UintMod - 2] }

\* one back-end call per experiment: the sequential and the parallel loop
SingleConfigs ==
  { [max_parallel_threads |-> 1],
    [max_parallel_threads |-> 0, max_parallel_experiments |-> 0],
    [max_parallel_threads |-> 2, max_parallel_experiments |-> 0] }

SingleCircuits == {c \in ExecCircuits : c.shots < 5}

\* the shot region with one bucket per thread, and with 2 buckets
WideShotConfigs ==
  { [max_parallel_threads |-> 0, max_memory_mb |-> OmpThreads] }

ShotConfigs ==
  { [max_parallel_threads |-> 2] }

\* the debug keys: two experiment workers with two buckets each, or one
\* experiment at a time with two buckets of two state-update threads; the
\* planners are skipped, so the shots and the memory of a circuit play no part
ExplicitConfigs ==
  { [_parallel_experiments |-> 2, _parallel_shots |-> 2],
    [_parallel_shots |-> 2, _parallel_state_update |-> 2] }

ExplicitCircuits == {c \in ExecCircuits : c.shots = 3}

ExecJobs ==
  {[config |-> c, circuits |-> cs] :
     c \in SingleConfigs, cs \in SeqsUpTo(SingleCircuits, MaxCircuits)}
    \cup {[config |-> c, circuits |-> cs] :
            c \in ShotConfigs, cs \in SeqsUpTo(ExecCircuits, MaxCircuits - 1)}
    \cup {[config |-> c, circuits |-> cs] :
            c \in WideShotConfigs, cs \in SeqsUpTo(ExecCircuits, MaxCircuits - 2)}
    \cup {[config |-> c, circuits |-> cs] :
            c \in ExplicitConfigs,
            cs \in SeqsUpTo(ExplicitCircuits, MaxCircuits - 1)}

ExecProcs == { <<1, 0>>, <<2, 1>> }

\* profile "dist": the fleet
FleetCircuits == [shots : {3, 100}, mem : {0, 3}, seed : {0}]

FleetConfigs == { <<>>, [max_memory_mb |-> 1], [max_memory_mb |-> 0] }

\* one circuit, two circuits of any kinds, or a longer list of one kind
FleetLists ==
  [1..1 -> FleetCircuits] \cup [1..2 -> FleetCircuits]
    \cup {[i \in 1..k |-> c] : c \in FleetCircuits, k \in 1..(MaxCircuits - 1)}

FleetJobs ==
  {[config |-> c, circuits |-> cs] : c \in FleetConfigs, cs \in FleetLists}

\* profile "plan": the planners over the configuration keys, with a back end
\* that never fails
PlanConfigs ==
  [max_parallel_threads : {0, 1, 2}, max_parallel_experiments : {0, 1, 2},
   max_parallel_shots : {0, 2}, max_memory_mb : {0, 2}]

PlanCircuits == [shots : {1, 3}, mem : {0, 1}, seed : {0}]

\* one circuit, two circuits of any kinds, or a longer list of one kind
PlanLists ==
  [1..1 -> PlanCircuits] \cup [1..2 -> PlanCircuits]
    \cup {[i \in 1..k |-> c] : c \in PlanCircuits, k \in 1..(MaxCircuits - 1)}

PlanJobs ==
  {[config |-> c, circuits |-> cs] : c \in PlanConfigs, cs \in PlanLists}

PlanProcs == { <<1, 0>>, <<2, 0>>, <<2, 1>> }

\* profile "seq": jobs executed one after the other on one Controller, some
\* planned and some with the debug keys, with a back end that never fails
SeqConfigs ==
  { [max_parallel_threads |-> 0, max_memory_mb |-> OmpThreads],
    [max_parallel_threads |-> 0, max_parallel_experiments |-> 0],
    [max_parallel_threads |-> 1],
    [_parallel_experiments |-> 2],
    [_parallel_shots |-> 0],
    [_parallel_shots |-> 2, _parallel_state_update |-> 0] }

SeqCircuits == {c \in ExecCircuits : c.shots = 3}

SeqJobs ==
  {[config |-> c, circuits |-> cs] :
     c \in SeqConfigs, cs \in SeqsUpTo(SeqCircuits, MaxCircuits - 1)}

SeqProcs == { <<1, 0>> }

\* profile "reuse": one Controller of a fleet of two processes executes jobs
\* whose circuits fit, or do not fit, the memory of one process, with a back
\* end that never fails
ReuseConfigs == { <<>>, [max_parallel_threads |-> 1] }

\* a circuit that needs more than the default max_memory_mb
HeavyCircuits == {[shots |-> 3, mem |-> SystemMemoryMb - 1, seed |-> 0]}

ReuseLists ==
  {<<h>> : h \in HeavyCircuits} \cup SeqsUpTo(SeqCircuits, MaxCircuits - 1)

ReuseJobs ==
  {[config |-> c, circuits |-> cs] : c \in ReuseConfigs, cs \in ReuseLists}

ReuseProcs == { <<2, 0>> }

\* profile "budget": one job with the default memory budget or with none, on
\* rank 0 of two processes, with a back end that never fails
BudgetConfigs == { <<>>, [max_memory_mb |-> 0] }

BudgetCircuits == HeavyCircuits \cup {c \in ExecCircuits : c.shots <= 4}

BudgetJobs ==
  {[config |-> c, circuits |-> cs] :
     c \in BudgetConfigs, cs \in SeqsUpTo(BudgetCircuits, MaxCircuits - 1)}

BudgetProcs == { <<2, 0>> }

Jobs == IF profile = "exec" THEN ExecJobs
        ELSE IF profile = "plan" THEN PlanJobs
        ELSE IF profile = "seq" THEN SeqJobs
        ELSE IF profile = "reuse" THEN ReuseJobs
        ELSE IF profile = "budget" THEN BudgetJobs
        ELSE {}

BackendOutcomes ==
  IF profile \in {"plan", "seq", "reuse", "budget"} THEN {o \in Outcomes : o.kind = "ok"}
  ELSE Outcomes

(***************************************************************************)
(* Specifications.                                                         *)
(***************************************************************************)
InitController(procs) ==
  /\ \E p \in procs : ctl = Controller(p[1], p[2])
  /\ omp_nested = FALSE
  /\ phase = "idle"
  /\ exps = <<>>
  /\ result = EmptyResult
  /\ njobs = 0

Init ==
  /\ profile = "exec"
  /\ InitController(ExecProcs)
  /\ job = NoJob
  /\ fault = NoFault
  /\ fleet = <<>>

Next ==
  \/ /\ phase \in {"idle", "returned"}
     /\ njobs < JobLimit
     /\ \E jb \in Jobs : Execute(jb.config, jb.circuits)
  \/ /\ phase \in {"idle", "returned"}
     /\ njobs < JobLimit
     /\ \E stage \in {"qobj", "noise_model"}, jb \in Jobs, what \in ParseErrors :
          ExecuteUnparsable(stage, jb.config, what)
  \/ \E j \in 1..Len(exps) : ExecuteCircuit(j)
  \/ \E j \in 1..Len(exps), out \in BackendOutcomes : RunCircuit(j, out)
  \/ \E j \in 1..Len(exps), i \in 1..OmpThreads : BucketStart(j, i)
  \/ \E j \in 1..Len(exps), i \in 1..OmpThreads, out \in BackendOutcomes :
       BucketEnd(j, i, out)
  \/ \E j \in 1..Len(exps) : JoinShots(j)
  \/ ReturnResult

Spec == Init /\ [][Next]_vars

InitPlan ==
  /\ profile = "plan"
  /\ InitController(PlanProcs)
  /\ job = NoJob
  /\ fault = NoFault
  /\ fleet = <<>>

SpecPlan == InitPlan /\ [][Next]_vars

InitSeq ==
  /\ profile = "seq"
  /\ InitController(SeqProcs)
  /\ job = NoJob
  /\ fault = NoFault
  /\ fleet = <<>>

SpecSeq == InitSeq /\ [][Next]_vars

InitReuse ==
  /\ profile = "reuse"
  /\ InitController(ReuseProcs)
  /\ job = NoJob
  /\ fault = NoFault
  /\ fleet = <<>>

SpecReuse == InitReuse /\ [][Next]_vars

InitBudget ==
  /\ profile = "budget"
  /\ InitController(BudgetProcs)
  /\ job = NoJob
  /\ fault = NoFault
  /\ fleet = <<>>

SpecBudget == InitBudget /\ [][Next]_vars

InitDist ==
  /\ profile = "dist"
  /\ InitController({<<1, 0>>})
  /\ job \in FleetJobs
  /\ fleet \in {[r \in 0..(np - 1) |-> Unplanned] : np \in 1..MaxProcs}
  /\ LET mems == Mems(job.circuits)
         mm   == get_value(clear_parallelization.max_memory_mb,
                           "max_memory_mb", job.config)
         np   == Cardinality(DOMAIN fleet)
     IN  fault \in
           {[trap |-> FALSE, q |-> q] : q \in DivisionChoices(mems, 1, mm, np, 0)}
             \cup (IF set_distributed_parallelization(mems, 1, mm, np, 0,
                                                      NoFault.q).ub
                     THEN {[trap |-> TRUE, q |-> NoFault.q]}
                     ELSE {})

NextDist == \E r \in 0..(MaxProcs - 1) : FleetExecute(r)

SpecDist == InitDist /\ [][NextDist]_vars

(***************************************************************************)
(* The experiment-level planner on its own (profile "fit"): the inputs of  *)
(* set_parallelization_experiments are drawn by the initial state, the     *)
(* local circuits being the whole list, and one step applies it the way    *)
(* execute() does.                                                         *)
(***************************************************************************)
\* longest list of local circuits handed to the planner
MaxFitCircuits == 4

FitMems == {4, 9, 16, 36}

FitControllers ==
  {[Controller(np, 0) EXCEPT !.max_parallel_experiments = e,
                             !.max_parallel_threads = t,
                             !.max_memory_mb = 10,
                             !.num_process_per_experiment = k] :
     np \in {1, 2}, e \in {0, MaxFitCircuits}, t \in {1, MaxFitCircuits},
     k \in {1, 2}}

FitJobs ==
  {[config |-> <<>>,
    circuits |-> [j \in 1..Len(ms) |-> [shots |-> 1, mem |-> ms[j], seed |-> 0]]] :
     ms \in SeqsUpTo(FitMems, MaxFitCircuits)}

InitFit ==
  /\ profile = "fit"
  /\ ctl \in {[c EXCEPT !.distributed_experiments_end = Len(jb.circuits)] :
                c \in FitControllers, jb \in FitJobs}
  /\ job \in {jb \in FitJobs : Len(jb.circuits) = ctl.distributed_experiments_end}
  /\ omp_nested = FALSE
  /\ phase = "idle"
  /\ exps = <<>>
  /\ result = EmptyResult
  /\ njobs = 0
  /\ fault = NoFault
  /\ fleet = <<>>

\* lines 645-649 of execute(): the planner, and the catch of line 723
PlanExperiments ==
  /\ phase = "idle"
  /\ LET plan == set_parallelization_experiments(
                   Mems(job.circuits), ctl.max_parallel_experiments,
                   ctl.max_parallel_threads, ctl.num_processes,
                   ctl.num_process_per_experiment, ctl.max_memory_mb)
     IN  /\ ctl' = [ctl EXCEPT !.parallel_experiments = plan.parallel_experiments]
         /\ phase' = IF plan.throw THEN "returned" ELSE "planned"
         /\ result' = IF plan.throw
                        THEN [status |-> "error", message |-> OutOfMemoryMessage]
                        ELSE result
  /\ UNCHANGED <<omp_nested, job, fault, exps, njobs, profile, fleet>>

NextFit == PlanExperiments

SpecFit == InitFit /\ [][NextFit]_vars

(***************************************************************************)
(* Claims about the distribution planner (SpecDist).                       *)
(***************************************************************************)
FleetPlanned == \A r \in DOMAIN fleet : fleet[r].planned

\* no rank of the fleet divided by zero
FleetDefined == \A r \in DOMAIN fleet : ~fleet[r].plan.ub

OwnedRange(r) ==
  {k \in 0..(2 * MaxCircuits + MaxUBQuot) :
     /\ fleet[r].plan.distributed_experiments_begin <= k
     /\ k < fleet[r].plan.distributed_experiments_end}

\* the ranks that stand for their group: one per group id
GroupLeaders == {r \in DOMAIN fleet : fleet[r].plan.distributed_experiments_rank = 0}

RECURSIVE SumShots(_, _)
SumShots(ranks, k) ==
  IF ranks = {} THEN 0
  ELSE LET r == CHOOSE x \in ranks : TRUE
       IN  (IF k \in DOMAIN fleet[r].shots THEN fleet[r].shots[k] ELSE 0)
             + SumShots(ranks \ {r}, k)

\* C1: once every rank has planned (and none divided by zero), the ranges
\* [experiments_begin, experiments_end) of distinct groups are pairwise
\* disjoint with union [0, |circuits|) when |circuits| >= num_processes /
\* num_process_per_experiment, and cover [0, |circuits|) otherwise.
C1_RangesPartitionOrCover ==
  (FleetPlanned /\ FleetDefined) =>
    LET n == Len(job.circuits)
        all == 0..(n - 1)
    IN  IF n >= fleet[0].plan.groups
          THEN /\ \A r1, r2 \in DOMAIN fleet :
                    (fleet[r1].plan.distributed_experiments_group_id
                       # fleet[r2].plan.distributed_experiments_group_id)
                      => OwnedRange(r1) \cap OwnedRange(r2) = {}
               /\ UNION {OwnedRange(r) : r \in DOMAIN fleet} = all
          ELSE \A k \in all : \E r \in DOMAIN fleet : k \in OwnedRange(r)

\* C2: once every rank has planned (and none divided by zero), the local shot
\* count of each rank for each circuit it owns is
\* floor(S*(r+1)/D) - floor(S*r/D), and the local shot counts of the groups
\* that own a circuit sum to the circuit's shots S.
C2_LocalShotsSumToShots ==
  (FleetPlanned /\ FleetDefined) =>
    /\ \A r \in DOMAIN fleet : \A k \in DOMAIN fleet[r].shots :
         LET S  == job.circuits[k + 1].shots
             D  == fleet[r].plan.distributed_shots
             sr == fleet[r].plan.distributed_shots_rank
         IN  fleet[r].shots[k] = ((S * (sr + 1)) \div D) - ((S * sr) \div D)
    /\ \A k \in 0..(Len(job.circuits) - 1) :
         SumShots(GroupLeaders, k) = job.circuits[k + 1].shots

(***************************************************************************)
(* Claims about the planners and the execution of a job (Spec, SpecPlan).  *)
(***************************************************************************)
\* experiment j has entered execute_circuit
Started(j) == exps[j].st # "pending"

\* experiment j has had its run_circuit call(s) issued
Invoked(j) == exps[j].inv # <<>>

\* the back-end invocations in flight: <<experiment, bucket>>, bucket 0 for
\* the call of the single path
Running ==
  {<<j, 0>> : j \in {k \in 1..Len(exps) : exps[k].st = "single"}}
    \cup UNION {{<<j, i>> : i \in {k \in 1..Len(exps[j].bst) :
                                     exps[j].bst[k] = "running"}} :
                j \in 1..Len(exps)}

NoiseOf(x) == exps[x[1]].inv[IF x[2] = 0 THEN 1 ELSE x[2]].noise

\* C3: once both planners have run (explicit parallelization off,
\* max_parallel_threads >= 1), parallel_experiments, parallel_shots and
\* parallel_state_update are all >= 1, and without nesting
\* parallel_state_update * max(parallel_experiments, parallel_shots) is at
\* most max_parallel_threads; also for a circuit with local shot count 0 and
\* for max_memory_mb = 0.
C3_PlannedDegreesPositiveWithinBudget ==
  ( /\ phase = "running"
    /\ ~ctl.explicit_parallelization
    /\ ctl.max_parallel_threads >= 1
    /\ \E j \in 1..Len(exps) : Started(j) )
  => /\ ctl.parallel_experiments >= 1
     /\ ctl.parallel_shots >= 1
     /\ ctl.parallel_state_update >= 1
     /\ (~ctl.parallel_nested /\ ~omp_nested)
          => ctl.parallel_state_update
               * Max(ctl.parallel_experiments, ctl.parallel_shots)
               <= ctl.max_parallel_threads

C5_SubshotsSumToLocalShots ==
  \A j \in 1..Len(exps) :
    (Invoked(j) /\ exps[j].pshots > 1) =>
      LET P == exps[j].pshots
          L == exps[j].shots
      IN  /\ L = LocalShots(exps[j].circ.shots, ctl.distributed_shots_rank,
                            ctl.distributed_shots)
          /\ Len(exps[j].inv) = P
          /\ SumSeq([i \in 1..P |-> exps[j].inv[i].shots]) = L
          /\ \A i \in 1..P :
               exps[j].inv[i].shots
                 = (L \div P) + (IF i - 1 < L % P THEN 1 ELSE 0)
          /\ \A i1, i2 \in 1..P :
               i1 < i2 => exps[j].inv[i1].shots - exps[j].inv[i2].shots \in {0, 1}

\* a shot region whose shots do not divide evenly has run to the join
C5_Witness ==
  \E j \in 1..Len(exps) :
    /\ exps[j].st = "done"
    /\ exps[j].pshots > 1
    /\ exps[j].shots % exps[j].pshots # 0
    /\ exps[j].res.status = "completed"

\* C6: in every interleaving, entry j of the results vector belongs to circuit
\* experiments_begin + j: the experiment that fills it was handed that
\* circuit, execute_circuit ran at most once for it, and a completed entry
\* carries that circuit's seed and local shot count.
C6_ResultsInCircuitOrder ==
  \A j \in 1..Len(exps) :
    LET k == ctl.distributed_experiments_begin + (j - 1)
    IN  /\ exps[j].src = k
        /\ exps[j].calls <= 1
        /\ k < Len(job.circuits) =>
             /\ exps[j].circ = job.circuits[k + 1]
             /\ exps[j].res.status = "completed" =>
                  /\ exps[j].res.seed = job.circuits[k + 1].seed
                  /\ exps[j].res.shots
                       = LocalShots(job.circuits[k + 1].shots,
                                    ctl.distributed_shots_rank,
                                    ctl.distributed_shots)

\* a later experiment of a parallel loop has completed while an earlier one,
\* a different circuit, is still running
C6_Witness ==
  /\ ctl.parallel_experiments > 1
  /\ \E j1, j2 \in 1..Len(exps) :
       /\ j1 < j2
       /\ Active(exps[j1])
       /\ exps[j2].res.status = "completed"
       /\ exps[j1].circ # exps[j2].circ

\* the message the claim describes: " [Experiment i] <msg>" for the entries
\* i, i + 1, ... of the results that are not completed, in increasing order
RECURSIVE ErroredExperiments(_)
ErroredExperiments(i) ==
  IF i >= Len(exps) THEN ""
  ELSE (IF exps[i + 1].res.status = "completed" THEN ""
        ELSE " [Experiment " \o ToString(i) \o "] " \o exps[i + 1].res.message)
         \o ErroredExperiments(i + 1)

Completed == {j \in 1..Len(exps) : exps[j].res.status = "completed"}

Errored == {j \in 1..Len(exps) : exps[j].res.status = "error"}

\* C7: after all local experiments (at least one) have finished, the batch
\* status is completed iff all are completed, error iff none is, and
\* partial_completed iff some are completed and some errored, and then the
\* message is the concatenation of " [Experiment i] <msg>" over the errored
\* experiments in increasing index order.
C7_BatchStatusReduction ==
  (phase = "returned" /\ Len(exps) >= 1 /\ \A j \in 1..Len(exps) : Started(j))
    => /\ Completed \cup Errored = 1..Len(exps)
       /\ result.status = "completed" <=> Errored = {}
       /\ result.status = "error" <=> Completed = {}
       /\ result.status = "partial_completed" <=> (Completed # {} /\ Errored # {})
       /\ result.status = "partial_completed"
            => result.message = ErroredExperiments(0)

\* a batch of three where the first and the last experiment failed
C7_Witness ==
  /\ phase = "returned"
  /\ Len(exps) = 3
  /\ result.status = "partial_completed"
  /\ Errored = {1, 3}
  /\ exps[1].res.message # exps[3].res.message

\* C8: a back-end error in one experiment never prevents another from
\* running: when the job has stopped after entering the experiment loop, every
\* local experiment had execute_circuit invoked exactly once and ended with
\* status completed or error.
C8_EveryExperimentRunsOnce ==
  /\ \A j \in 1..Len(exps) : exps[j].calls <= 1
  /\ (phase \in {"returned", "terminated"} /\ \E j \in 1..Len(exps) : Started(j))
       => \A j \in 1..Len(exps) :
            exps[j].calls = 1 /\ exps[j].res.status \in {"completed", "error"}

\* C9: the back-end is invoked with circ.seed on the single path and bucket i
\* with circ.seed + i (in uint_t) on the shot-parallel path, whatever the
\* order in which the buckets run, and a completed result records circ.seed.
C9_BucketSeeds ==
  \A j \in 1..Len(exps) :
    /\ Invoked(j) =>
         /\ exps[j].pshots <= 1 =>
              (Len(exps[j].inv) = 1 /\ exps[j].inv[1].seed = exps[j].circ.seed)
         /\ exps[j].pshots > 1 =>
              /\ Len(exps[j].inv) = exps[j].pshots
              /\ \A i \in 1..Len(exps[j].inv) :
                   exps[j].inv[i].seed = (exps[j].circ.seed + (i - 1)) % UintMod
    /\ exps[j].res.status = "completed" => exps[j].res.seed = exps[j].circ.seed

\* the last bucket of a region ran first, and the seeds of the region wrap
\* around the width of uint_t
C9_Witness ==
  \E j \in 1..Len(exps) :
    /\ exps[j].st = "buckets"
    /\ exps[j].pshots > 1
    /\ exps[j].circ.seed + exps[j].pshots - 1 >= UintMod
    /\ exps[j].bst[Len(exps[j].bst)] = "done"
    /\ exps[j].bst[1] = "pending"

\* C10 as stated: no two back-end invocations in flight at the same time
\* are given the same NoiseModel instance, be they of different experiments
\* or shot buckets of one experiment.
C10_NoSharedNoiseModel ==
  \A x, y \in Running : x # y => NoiseOf(x) # NoiseOf(y)

\* C10 amended: no two back-end invocations in flight at the same time that
\* belong to different experiments are given the same NoiseModel instance,
\* and none is given the job's own noise_model; the shot buckets of one
\* experiment all receive that experiment's copy.
C10_NoSharedNoiseModelAcrossExperiments ==
  /\ \A x, y \in Running : x[1] # y[1] => NoiseOf(x) # NoiseOf(y)
  /\ \A x \in Running : NoiseOf(x) # 0
  /\ \A x, y \in Running : x[1] = y[1] => NoiseOf(x) = NoiseOf(y)

\* buckets of two different experiments are in flight at the same time
C10_Witness ==
  \E x, y \in Running : x[1] # y[1] /\ x[2] # 0 /\ y[2] # 0

(***************************************************************************)
(* Claims about the configuration and the planners' examples.              *)
(***************************************************************************)
\* the job's config asks for the automatic memory budget
MemoryBudgetZero ==
  check_key("max_memory_mb", job.config) /\ job.config["max_memory_mb"] = 0

\* C11: when the job config holds max_memory_mb = 0, the memory budget the
\* distribution planner, the parallelism planners and the memory validator
\* use for the job is half of the detected physical memory, as when the key
\* is absent, not 0.
C11_ZeroMemoryBudgetIsAutomatic ==
  (phase # "idle" /\ MemoryBudgetZero) =>
    /\ ctl.max_memory_mb = get_system_memory_mb \div 2
    /\ \A j \in 1..Len(job.circuits) :
         validate_memory_requirements(job.circuits[j].mem, ctl)
           <=> (job.circuits[j].mem \div ctl.num_process_per_experiment
                  <= get_system_memory_mb \div 2)

\* every rank of a fleet of np processes has planned a job of two circuits
\* that each fit in the memory of one process
TwoFittingCircuits(np) ==
  /\ Cardinality(DOMAIN fleet) = np
  /\ FleetPlanned
  /\ Len(job.circuits) = 2
  /\ \A r \in DOMAIN fleet : fleet[r].plan.num_process_per_experiment = 1

GroupIds == {fleet[r].plan.distributed_experiments_group_id : r \in DOMAIN fleet}

\* C13 as stated: with four processes and two circuits that each fit in one
\* process, there are two groups owning one circuit each and shots are not
\* distributed: distributed_shots = 1 and distributed_shots_rank = 0 on
\* every rank.
C13_FourProcessesTwoGroups ==
  TwoFittingCircuits(4) =>
    /\ Cardinality(GroupIds) = 2
    /\ \A r \in DOMAIN fleet :
         /\ fleet[r].plan.distributed_shots = 1
         /\ fleet[r].plan.distributed_shots_rank = 0

\* C13 amended: with four processes and two circuits that each fit in one
\* process, every rank is a group of its own; group g owns circuit g mod 2,
\* so each circuit is owned by two groups, and its shots are distributed over
\* them: distributed_shots = 2 and distributed_shots_rank = g div 2, and
\* distributed_experiments is clamped to 2.
C13_FourProcessesShareShots ==
  TwoFittingCircuits(4) =>
    /\ Cardinality(GroupIds) = 4
    /\ \A r \in DOMAIN fleet :
         /\ fleet[r].plan.distributed_experiments_group_id = r
         /\ fleet[r].plan.distributed_experiments = 2
         /\ fleet[r].plan.distributed_experiments_begin = r % 2
         /\ fleet[r].plan.distributed_experiments_end = (r % 2) + 1
         /\ fleet[r].plan.distributed_shots = 2
         /\ fleet[r].plan.distributed_shots_rank = r \div 2

C13_Witness == TwoFittingCircuits(4)

\* the local shot counts of the ranks that own circuit k, by shot rank
ShotsByRank(k) ==
  {<<fleet[r].plan.distributed_shots_rank, fleet[r].shots[k]>> :
     r \in {x \in DOMAIN fleet : k \in DOMAIN fleet[x].shots}}

\* C14 as stated: with six processes and two circuits that fit in memory,
\* each circuit is owned by three groups with distributed_shots = 3, and a
\* circuit of 100 shots gives the shot ranks 0, 1, 2 the local shot counts
\* 34, 33, 33.
C14_SixProcessesShots_34_33_33 ==
  TwoFittingCircuits(6) =>
    \A k \in 0..1 :
      /\ Cardinality({r \in DOMAIN fleet : k \in DOMAIN fleet[r].shots}) = 3
      /\ \A r \in DOMAIN fleet : fleet[r].plan.distributed_shots = 3
      /\ job.circuits[k + 1].shots = 100
           => ShotsByRank(k) = {<<0, 34>>, <<1, 33>>, <<2, 33>>}

\* C14 amended: with six processes and two circuits that fit in memory, each
\* circuit is owned by three groups with distributed_shots = 3, and a circuit
\* of 100 shots gives the shot ranks 0, 1, 2 the local shot counts 33, 33, 34
\* (floor(100(r+1)/3) - floor(100r/3)): the remainder goes to the last rank.
C14_SixProcessesShots_33_33_34 ==
  TwoFittingCircuits(6) =>
    \A k \in 0..1 :
      /\ Cardinality({r \in DOMAIN fleet : k \in DOMAIN fleet[r].shots}) = 3
      /\ \A r \in DOMAIN fleet : fleet[r].plan.distributed_shots = 3
      /\ job.circuits[k + 1].shots = 100
           => ShotsByRank(k) = {<<0, 33>>, <<1, 33>>, <<2, 34>>}

C14_Witness ==
  TwoFittingCircuits(6) /\ \E k \in 1..2 : job.circuits[k].shots = 100

\* the memory a local circuit needs per process, and the planner's budget
PerProcessMemory(j) == job.circuits[j].mem \div ctl.num_process_per_experiment

FitBudget == ctl.max_memory_mb * ctl.num_process_per_experiment

\* four local circuits that need 90%, 40%, 40% and 40% of the budget, in any
\* order, planned with at least four experiments and four threads allowed
NinetyFortyFortyForty ==
  /\ phase = "planned"
  /\ Len(job.circuits) = 4
  /\ Cardinality({j \in 1..4 : 10 * PerProcessMemory(j) = 9 * FitBudget}) = 1
  /\ Cardinality({j \in 1..4 : 10 * PerProcessMemory(j) = 4 * FitBudget}) = 3
  /\ ctl.max_parallel_experiments >= 4
  /\ ctl.max_parallel_threads >= 4

\* C12 as stated: with four local circuits that need 90%, 40%, 40%, 40% of
\* the budget and max_parallel_experiments, max_parallel_threads >= 4, the
\* experiment-level planner sets parallel_experiments = 2.
C12_NinetyFortyGivesTwo == NinetyFortyFortyForty => ctl.parallel_experiments = 2

\* C12 amended: with those four circuits the planner sets
\* parallel_experiments = 1: in descending order the needs are 90, 40, 40, 40,
\* and the prefix stops at the second circuit (90 + 40 > 100).
C12_NinetyFortyGivesOne == NinetyFortyFortyForty => ctl.parallel_experiments = 1

\* the largest circuit is not the first of the list
C12_Witness == NinetyFortyFortyForty /\ 10 * PerProcessMemory(1) = 4 * FitBudget

(***************************************************************************)
(* Claims about the errors of a job.                                       *)
(***************************************************************************)
Unparsable == "parse_error" \in DOMAIN job

\* C15: when the job cannot be parsed, execute(job) returns a Result with
\* status error, a message that carries the parse error, and an empty
\* experiment list, and no back-end invocation happens for that job.
C15_UnparsableJobReturnsError ==
  Unparsable =>
    /\ phase = "returned"
    /\ result = [status |-> "error",
                 message |-> "Failed to load qobj: " \o job.parse_error]
    /\ exps = <<>>

\* the noise model of a job failed to parse after its config had been applied
C15_Witness ==
  /\ Unparsable
  /\ phase = "returned"
  /\ job.config # <<>>
  /\ ctl.max_parallel_threads >= 1

(***************************************************************************)
(* Claims about the debug keys (SpecSeq).                                  *)
(***************************************************************************)
DebugKeys == {"_parallel_experiments", "_parallel_shots", "_parallel_state_update"}

\* the Controller field a debug key is loaded into
DebugField(k) ==
  IF k = "_parallel_experiments" THEN ctl.parallel_experiments
  ELSE IF k = "_parallel_shots" THEN ctl.parallel_shots
  ELSE ctl.parallel_state_update

DebugKeysGiven == DebugKeys \cap DOMAIN job.config

C17_RangesWithinCircuits ==
  \A r \in DOMAIN fleet :
    fleet[r].planned =>
      /\ fleet[r].plan.distributed_experiments_begin
           <= fleet[r].plan.distributed_experiments_end
      /\ fleet[r].plan.distributed_experiments_end <= Len(job.circuits)
      /\ OwnedRange(r) \subseteq 0..(Len(job.circuits) - 1)

(***************************************************************************)
(* Claims about the errors of the shot region (Spec).                      *)
(***************************************************************************)
\* the experiments at the join of the shot region (every bucket has ended) in
\* which buckets have thrown, all of them a std::runtime_error
RaisedInBucket ==
  {j \in 1..Len(exps) :
     /\ exps[j].st = "buckets"
     /\ \A i \in 1..Len(exps[j].bst) : exps[j].bst[i] = "done"
     /\ exps[j].raised.kinds = {"runtime_error"}}

\* C18: on the shot-parallel path, when at least one bucket's back-end
\* invocation threw (here: a std::runtime_error, the kind the region
\* catches), the step that takes the experiment out of the region after the
\* join leaves it with status error, with the message the lowest-indexed
\* failing bucket threw, and with no bucket result combined into the
\* experiment result; also when the text of the error is the empty string.
C18_FailingBucketFailsExperiment ==
  [][\A j \in RaisedInBucket :
       exps'[j].st = "done" =>
         /\ exps'[j].res.status = "error"
         /\ exps'[j].res.message = exps[j].raised.msg
         /\ exps'[j].res.combined = 0]_vars

\* C19: in the shot region every error a bucket's back-end invocation throws,
\* whatever its kind, is captured in that bucket's message slot without
\* leaving the region (the process is not terminated and the experiment
\* leaves the region only at its end), and all parallel_shots buckets are
\* invoked even when some of them fail.
C19_EveryBucketErrorCaptured ==
  /\ phase # "terminated"
  /\ \A j \in 1..Len(exps) :
       /\ (exps[j].st = "buckets" /\ exps[j].raised.bucket > 0)
            => exps[j].error_msgs[exps[j].raised.bucket] = exps[j].raised.msg
       /\ (exps[j].st = "done" /\ exps[j].pshots > 1)
            => exps[j].started = exps[j].pshots

(***************************************************************************)
(* Claims about the parallelization fields during a job (Spec).            *)
(***************************************************************************)
\* C20: from the start of the first experiment of a job to the end of the
\* last, parallel_experiments, parallel_shots and parallel_state_update are
\* not written: they are set before the experiment loop and only read by the
\* steps of the loop, on the sequential and on the parallel-for path.
C20_DegreesReadOnlyDuringExecution ==
  [][(phase = "running" /\ phase' = "running") =>
       /\ ctl'.parallel_experiments = ctl.parallel_experiments
       /\ ctl'.parallel_shots = ctl.parallel_shots
       /\ ctl'.parallel_state_update = ctl.parallel_state_update]_vars

(***************************************************************************)
(* Claims about the jobs of one Controller (SpecReuse).                    *)
(***************************************************************************)
\* the job has gone through the planners of execute
Planned == njobs >= 1 /\ ~Unparsable /\ phase \in {"running", "returned"}

\* C21: for every job, whatever jobs the Controller executed before it,
\* num_process_per_experiment is the maximum, over the circuits of this job
\* that need more than max_memory_mb, of ceil(required_memory_mb /
\* max_memory_mb), and 1 when there is none: it starts from 1 for each job.
\* (Stated for the jobs whose groups exist, num_process_per_experiment <=
\* num_processes, where no quotient of the planner is undefined.)
C21_ProcessesPerExperimentOfThisJob ==
  (Planned /\ ctl.num_process_per_experiment <= ctl.num_processes) =>
    ctl.num_process_per_experiment
      = NumProcessPerExperiment(1, Mems(job.circuits), ctl.max_memory_mb,
                                fault.q.m)

(***************************************************************************)
(* Claims about the failure of the experiment planner (SpecBudget).        *)
(***************************************************************************)
\* the memory needs of the local circuits handed to the experiment planner
LocalMems == [j \in 1..Len(exps) |-> exps[j].circ.mem]

\* set_parallelization_experiments was called for the job and threw: the
\* first circuit of the sorted list exceeds the budget
ExperimentPlannerRaised ==
  /\ Planned
  /\ ~ctl.explicit_parallelization
  /\ ctl.distributed_experiments_begin <= ctl.distributed_experiments_end
  /\ set_parallelization_experiments(
       LocalMems, ctl.max_parallel_experiments, ctl.max_parallel_threads,
       ctl.num_processes, ctl.num_process_per_experiment,
       ctl.max_memory_mb).throw

\* C22: when the experiment planner raises out-of-memory, execute returns a
\* Result with status error whose message is the out-of-memory message, and
\* no experiment of the job is started: execute_circuit and the back end are
\* never invoked.
C22_PlannerOutOfMemoryFailsJob ==
  ExperimentPlannerRaised =>
    /\ phase = "returned"
    /\ result.status = "error"
    /\ result.message = OutOfMemoryMessage
    /\ \A j \in 1..Len(exps) :
         /\ exps[j].st = "pending"
         /\ exps[j].calls = 0
         /\ exps[j].inv = <<>>

\* a job of at least one local circuit was refused by the planner
C22_Witness == ExperimentPlannerRaised /\ Len(exps) >= 1

(***************************************************************************)
(* Claims about the nesting flag of the thread runtime (Spec).             *)
(***************************************************************************)
\* C23: when execute enters the experiment loop of a job, the nesting flag is
\* enabled iff parallel_experiments > 1 and parallel_experiments <
\* max_parallel_threads (and parallel_nested records it), and is disabled in
\* every other case; while the experiments run, the shot-level code of
\* execute_circuit changes the flag only when it was not enabled at the
\* experiment level.
C23_NestingFlag ==
  [][/\ (phase # "running" /\ phase' = "running") =>
          /\ omp_nested' = (/\ ctl'.parallel_experiments > 1
                            /\ ctl'.parallel_experiments < ctl'.max_parallel_threads)
          /\ ctl'.parallel_nested = omp_nested'
     /\ (phase = "running" /\ omp_nested' # omp_nested) =>
          ~ctl.parallel_nested]_vars

\* nesting was enabled at the experiment level and an experiment is in its
\* shot region
C23_Witness ==
  /\ phase = "running"
  /\ ctl.parallel_nested
  /\ omp_nested
  /\ \E j \in 1..Len(exps) : exps[j].st = "buckets"

\* the shot-level code has enabled nesting that the experiment level had
\* left disabled
C23_WitnessShotLevel ==
  /\ phase = "running"
  /\ ~ctl.parallel_nested
  /\ omp_nested

\* C24: the nesting flag is set and then restored: after execute has
\* returned, the flag has the value it had when the job arrived; and while
\* the experiments of a job run the flag is not written, the per-experiment
\* execute_circuit never changes it.
C24_NestingFlagRestored ==
  /\ []((phase = "returned" /\ ~Unparsable) => omp_nested = job.nested_before)
  /\ [][(phase = "running" /\ phase' = "running") =>
          omp_nested' = omp_nested]_vars

\* C24, first part alone: after execute has returned, the nesting flag has
\* the value it had when the job arrived.
C24_FlagAfterJobAsBefore ==
  (phase = "returned" /\ ~Unparsable) => omp_nested = job.nested_before

\* C24, second part alone: no step of a running job changes the flag.
C24_FlagNotWrittenByExperiments ==
  [][(phase = "running" /\ phase' = "running") => omp_nested' = omp_nested]_vars

(***************************************************************************)
(* Claims about the circuit-level planner (SpecPlan).                      *)
(***************************************************************************)
\* max_shots of set_parallelization_circuit
MaxShots ==
  IF ctl.max_parallel_shots > 0
    THEN Min(ctl.max_parallel_shots, ctl.max_parallel_threads)
    ELSE ctl.max_parallel_threads

\* the planner of execute_circuit takes the branch that weighs the memory
MemoryBranch ==
  ~ctl.explicit_parallelization /\ MaxShots > 1 /\ ctl.parallel_experiments <= 1

\* C25: when explicit parallelization is off and the circuit-level planner
\* takes the memory branch (max_shots > 1 and parallel_experiments <= 1),
\* with circ_mb = max(1, required_memory_mb / num_process_per_experiment) it
\* raises out-of-memory whenever circ_mb > max_memory_mb, and otherwise sets
\* parallel_shots = min(floor(max_memory_mb / circ_mb), max_shots,
\* shots_local).
C25_MemoryBranchOfCircuitPlanner ==
  (Planned /\ MemoryBranch) =>
    \A j \in 1..Len(exps) :
      Started(j) =>
        LET circ_mb == Max(1, exps[j].circ.mem \div ctl.num_process_per_experiment)
            shots_local == LocalShots(exps[j].circ.shots,
                                      ctl.distributed_shots_rank,
                                      ctl.distributed_shots)
        IN  IF circ_mb > ctl.max_memory_mb
              THEN /\ exps[j].st = "done"
                   /\ exps[j].inv = <<>>
                   /\ exps[j].res.status = "error"
                   /\ exps[j].res.message = OutOfMemoryMessage
              ELSE exps[j].pshots
                     = Min(Min(ctl.max_memory_mb \div circ_mb, MaxShots),
                           shots_local)

(***************************************************************************)
(* Claims about the memory of the experiments run together (SpecPlan).     *)
(***************************************************************************)
\* set_parallelization_experiments was called for the job and returned
ExperimentPlannerReturned ==
  /\ Planned
  /\ ~ctl.explicit_parallelization
  /\ ctl.distributed_experiments_begin <= ctl.distributed_experiments_end
  /\ ~ExperimentPlannerRaised

\* the memory estimate of the local experiments S run at the same time
RECURSIVE CombinedMemory(_)
CombinedMemory(S) ==
  IF S = {} THEN 0
  ELSE LET j == CHOOSE x \in S : TRUE
       IN  (LocalMems[j] \div ctl.num_process_per_experiment)
             + CombinedMemory(S \ {j})

\* C26: when the experiment planner returns without error with
\* parallel_experiments = k, every set of k distinct local circuits has a
\* total per-process memory (sum of required_memory_mb /
\* num_process_per_experiment) of at most max_memory_mb *
\* num_process_per_experiment.
C26_ConcurrentExperimentsFitBudget ==
  ExperimentPlannerReturned =>
    \A S \in SUBSET (1..Len(exps)) :
      Cardinality(S) = ctl.parallel_experiments =>
        CombinedMemory(S) <= ctl.max_memory_mb * ctl.num_process_per_experiment

(***************************************************************************)
(* Claims about the shots of the buckets (Spec).                           *)
(***************************************************************************)
\* C27: when explicit parallelization is off and execute_circuit takes the
\* shot-parallel path (parallel_shots > 1), the back-end invocation of every
\* bucket is given at least one shot: the planner bounds parallel_shots by
\* the local shot count.
C27_EveryBucketHasAShot ==
  ~ctl.explicit_parallelization =>
    \A j \in 1..Len(exps) :
      (Invoked(j) /\ exps[j].pshots > 1) =>
        /\ exps[j].pshots <= exps[j].shots
        /\ Len(exps[j].inv) = exps[j].pshots
        /\ \A i \in 1..Len(exps[j].inv) : exps[j].inv[i].shots >= 1

\* a planned shot region with as many buckets as local shots is running its
\* last bucket
C27_Witness ==
  /\ ~ctl.explicit_parallelization
  /\ \E j \in 1..Len(exps) :
       /\ exps[j].st = "buckets"
       /\ exps[j].pshots > 1
       /\ exps[j].pshots = exps[j].shots
       /\ exps[j].bst[exps[j].pshots] = "running"

====
